---- MODULE Spec2Model ----
(***************************************************************************)
(* Model of LAB1/3_ase_examples.ipynb: the "Probing a molecule" cells.     *)
(*                                                                         *)
(* The notebook holds no algorithm of its own: cell 8 calls                *)
(* caffeine.get_all_distances() and caffeine.get_distances(8,0) of ASE,    *)
(* cell 9 calls plt.hist(all_distances.flatten(), bins = 200) of           *)
(* matplotlib, which hands the data to numpy.histogram.  The operators     *)
(* below are what those calls compute:                                     *)
(*   - ase.geometry.get_distances(p1) (ASE >= 3.16): the differences of    *)
(*     the upper-triangle index pairs, their norms written into a zero     *)
(*     matrix, and the matrix added to its transpose;                      *)
(*   - numpy.histogram(a, bins, range): the outer edges from range or      *)
(*     from the data, an empty range widened by 0.5 on both sides,         *)
(*     bins + 1 evenly spaced edges, values outside the edges dropped,     *)
(*     the bin index floor((v - first) / (last - first) * bins), and the   *)
(*     index bins folded into the last bin.                                *)
(*                                                                         *)
(* Numbers.  A float is modelled as a fixed-point integer, Scale units     *)
(* per Angstrom (1.5 is 15).  Atom coordinates are whole Angstroms; the    *)
(* square root rounds down to the unit.  Bin edges are exact rationals:    *)
(* numerators over the common denominator `den`.                           *)
(*                                                                         *)
(* Python values.  A name that is not bound yet, and the argument          *)
(* range=None, is the empty sequence; a bound name is <<value>>.  Python   *)
(* indices are 0-based, sequences here 1-based.                            *)
(***************************************************************************)
EXTENDS Integers, Sequences, FiniteSets

VARIABLES
    symbols,        \* caffeine.get_chemical_symbols(): one symbol per atom
    positions,      \* caffeine.get_positions(): one <<x, y, z>> per atom
    all_distances,  \* the name all_distances of cell 8: <<>> or <<matrix>>
    pair_out,       \* what get_distances(a, b) last returned: <<>> or <<array>>
    hist_args,      \* the arguments of the hist call: <<>> or <<[x, bins, range]>>
    hist_out,       \* what hist last returned: <<>> or <<[n, edges, den]>>
    xlim,           \* the left view limit set by plt.xlim: <<>> (automatic) or
                    \* <<twice the limit>>
    raised,         \* the exception the last call ended with, or "None"
    history         \* the calls made so far, oldest first

vars == <<symbols, positions, all_distances, pair_out, hist_args, hist_out,
          xlim, raised, history>>

(***************************************************************************)
(* Bounds of the model.                                                    *)
(***************************************************************************)
MaxAtoms == 3
MaxCalls == 3
MaxVals == 4
MaxBins == 3

\* Fixed-point units per Angstrom.
Scale == 10

\* bins = 200 of cell 9.
Bins == 200

Unbound == <<>>
Bound(v) == <<v>>

\* The atoms a structure is made of: a symbol and a position, in whole
\* Angstroms.
Atoms ==
    {[symbol |-> "O", position |-> <<0, 0, 0>>],
     [symbol |-> "C", position |-> <<3, 4, 0>>],
     [symbol |-> "N", position |-> <<1, 2, 2>>],
     [symbol |-> "H", position |-> <<1, 0, 0>>]}

SeqsUpTo(S, n) == UNION {[1..k -> S] : k \in 0..n}

\* The structures io.read can hand to the analyzer: up to MaxAtoms atoms, in
\* any order, an atom possibly more than once.
AtomSets == SeqsUpTo(Atoms, MaxAtoms)

(***************************************************************************)
(* ase.geometry.get_distances(p1), as Atoms.get_all_distances() calls it   *)
(* (mic = False, so no cell and no minimum-image step).                    *)
(***************************************************************************)
\* D = p1[ind2] - p1[ind1]
Diff(p, q) == <<q[1] - p[1], q[2] - p[2], q[3] - p[3]>>

\* SumSq with the third axis left out.
SumSq_planar(d) == d[1] * d[1] + d[2] * d[2]

SumSq(d) == d[1] * d[1] + d[2] * d[2] + d[3] * d[3]

\* sqrt of a whole number of square Angstroms, in fixed-point units.
Sqrt(n) == CHOOSE r \in 0..(Scale * n) : r * r <= n * Scale * Scale
                                        /\ (r + 1) * (r + 1) > n * Scale * Scale

\* D_len = norm(D)
Norm(d) == Sqrt(SumSq(d))

\* Dout_len = zeros((np1, np1)); Dout_len[(ind1, ind2)] = D_len
\* with (ind1, ind2) = triu_indices(np1, k = 1): the pairs i < j.
UpperTriangle(R) ==
    [i \in 1..Len(R) |-> [j \in 1..Len(R) |->
        IF i < j THEN Norm(Diff(R[i], R[j])) ELSE 0]]

Transpose(M) == [i \in 1..Len(M) |-> [j \in 1..Len(M) |-> M[j][i]]]

MatAdd(A, B) == [i \in 1..Len(A) |-> [j \in 1..Len(A) |-> A[i][j] + B[i][j]]]

\* get_all_distances without the transpose added: the upper triangle alone.
get_all_distances_upper(R) == UpperTriangle(R)

\* Dout_len += Dout_len.T; return Dout_len
get_all_distances(R) == MatAdd(UpperTriangle(R), Transpose(UpperTriangle(R)))

\* get_distances counting the second index from 1: the atom after atom b
\* (the first atom after the last).
get_distances_next(R, a, b) ==
    <<Norm(Diff(R[a + 1], R[((b + 1) % Len(R)) + 1]))>>

\* Atoms.get_distances(a, indices) with one index b: p1 = [R[a]], p2 = [R[b]],
\* D = p2 - p1, and the lengths as a one-element array.
get_distances(R, a, b) == <<Norm(Diff(R[a + 1], R[b + 1]))>>

\* flatten taking the first row only (all_distances[0]).
flatten_first(M) == IF M = <<>> THEN <<>> ELSE Head(M)

\* ndarray.flatten(): the rows one after the other.
RECURSIVE flatten(_)
flatten(M) == IF M = <<>> THEN <<>> ELSE Head(M) \o flatten(Tail(M))

(***************************************************************************)
(* numpy.histogram(a, bins, range), which plt.hist calls with the data,    *)
(* the bins argument and the range argument.                               *)
(***************************************************************************)
Min(S) == CHOOSE m \in S : \A v \in S : m <= v
Max(S) == CHOOSE m \in S : \A v \in S : m >= v
Range(x) == {x[k] : k \in 1..Len(x)}

\* HistError refusing an empty range as well as a reversed one.
HistError_strict(x, bins, range) ==
    IF bins < 1 THEN "ValueError"
    ELSE IF range # <<>> /\ range[1] >= range[2] THEN "ValueError"
    ELSE "None"

\* _get_bin_edges / _get_outer_edges: what the call raises, "None" when nothing.
\*   if n_equal_bins < 1: raise ValueError
\*   if first_edge > last_edge: raise ValueError
HistError(x, bins, range) ==
    IF bins < 1 THEN "ValueError"
    ELSE IF range # <<>> /\ range[1] > range[2] THEN "ValueError"
    ELSE "None"

\* _get_outer_edges before the widening: the range given, else (0, 1) for no
\* data, else (a.min(), a.max()).
GivenEdges(x, range) ==
    IF range # <<>> THEN range
    ELSE IF x = <<>> THEN <<0, Scale>>
    ELSE <<Min(Range(x)), Max(Range(x))>>

\* "expand empty range to avoid divide by zero": first - 0.5, last + 0.5.
\* The result is in half fixed-point units (2 * first, 2 * last), so that
\* the 0.5 is exact whatever Scale is.
OuterEdges2(x, range) ==
    LET e == GivenEdges(x, range)
    IN  IF e[1] = e[2] THEN <<2 * e[1] - Scale, 2 * e[2] + Scale>>
        ELSE <<2 * e[1], 2 * e[2]>>

\* BinEdges with linspace(first, last, bins): one edge short.
BinEdges_short(first2, last2, bins) ==
    [k \in 1..bins |-> first2 * bins + (k - 1) * (last2 - first2)]

\* linspace(first, last, bins + 1): the numerators of the edges over the
\* denominator 2 * bins.
BinEdges(first2, last2, bins) ==
    [k \in 1..(bins + 1) |-> first2 * bins + (k - 1) * (last2 - first2)]

\* Keep with the upper edge left out.
Keep_open(v, first2, last2) == 2 * v >= first2 /\ 2 * v < last2

\* keep = (a >= first_edge) & (a <= last_edge)
Keep(v, first2, last2) == 2 * v >= first2 /\ 2 * v <= last2

\* BinIndex without the last edge folded into the last bin.
BinIndex_nofold(v, first2, last2, bins) ==
    ((2 * v - first2) * bins) \div (last2 - first2) + 1

\* f_indices = (a - first_edge) / (last_edge - first_edge) * bins, floored;
\* indices[indices == bins] -= 1; 1-based here.
BinIndex(v, first2, last2, bins) ==
    LET f == ((2 * v - first2) * bins) \div (last2 - first2)
    IN  IF f = bins THEN bins ELSE f + 1

\* np.bincount(indices, minlength = bins): one more in the bin of each index
\* (index 0 stands for a value that is not kept, and is counted nowhere).
RECURSIVE bincount(_, _)
bincount(indices, bins) ==
    IF indices = <<>> THEN [b \in 1..bins |-> 0]
    ELSE LET rest == bincount(Tail(indices), bins)
             i == Head(indices)
         IN  IF i \in 1..bins THEN [rest EXCEPT ![i] = @ + 1] ELSE rest

\* n = bincount(indices[keep], minlength = bins)
BinCounts(x, first2, last2, bins) ==
    bincount([k \in 1..Len(x) |->
                 IF Keep(x[k], first2, last2)
                 THEN BinIndex(x[k], first2, last2, bins) ELSE 0],
             bins)

\* What hist returns when it raises nothing: the counts n, and the edges as
\* numerators over den.
histogram(x, bins, range) ==
    LET e == OuterEdges2(x, range)
    IN  [n     |-> BinCounts(x, e[1], e[2], bins),
         edges |-> BinEdges(e[1], e[2], bins),
         den   |-> 2 * bins]

(***************************************************************************)
(* The notebook session.                                                   *)
(***************************************************************************)
\* caffeine = io.read('caffeine.xyz'); nothing else is bound yet.
Init ==
    /\ \E m \in AtomSets :
          /\ symbols = [k \in 1..Len(m) |-> m[k].symbol]
          /\ positions = [k \in 1..Len(m) |-> m[k].position]
    /\ all_distances = Unbound
    /\ pair_out = Unbound
    /\ hist_args = Unbound
    /\ hist_out = Unbound
    /\ xlim = Unbound
    /\ raised = "None"
    /\ history = <<>>

\* GetAllDistances adding the new lengths into the matrix already bound.
GetAllDistances_accumulate ==
    /\ Len(history) < MaxCalls
    /\ all_distances' =
          IF all_distances = Unbound
          THEN Bound(get_all_distances(positions))
          ELSE Bound(MatAdd(all_distances[1], get_all_distances(positions)))
    /\ raised' = "None"
    /\ history' = Append(history, "get_all_distances")
    /\ UNCHANGED <<symbols, positions, pair_out, hist_args, hist_out, xlim>>

\* all_distances = caffeine.get_all_distances()
GetAllDistances ==
    /\ Len(history) < MaxCalls
    /\ all_distances' = Bound(get_all_distances(positions))
    /\ raised' = "None"
    /\ history' = Append(history, "get_all_distances")
    /\ UNCHANGED <<symbols, positions, pair_out, hist_args, hist_out, xlim>>

\* GetDistances taking the difference in place, in the positions array.
GetDistances_inplace(a, b) ==
    /\ Len(history) < MaxCalls
    /\ IF a < Len(positions) /\ b < Len(positions)
       THEN /\ pair_out' = Bound(get_distances(positions, a, b))
            /\ positions' = [positions EXCEPT ![b + 1] = Diff(positions[a + 1], positions[b + 1])]
            /\ raised' = "None"
       ELSE /\ pair_out' = pair_out
            /\ positions' = positions
            /\ raised' = "IndexError"
    /\ history' = Append(history, "get_distances")
    /\ UNCHANGED <<symbols, all_distances, hist_args, hist_out, xlim>>

\* caffeine.get_distances(a, b); an index past the last atom raises IndexError.
GetDistances(a, b) ==
    /\ Len(history) < MaxCalls
    /\ IF a < Len(positions) /\ b < Len(positions)
       THEN /\ pair_out' = Bound(get_distances(positions, a, b))
            /\ raised' = "None"
       ELSE /\ pair_out' = pair_out
            /\ raised' = "IndexError"
    /\ history' = Append(history, "get_distances")
    /\ UNCHANGED <<symbols, positions, all_distances, hist_args, hist_out, xlim>>

\* Hist handing back the edges it had computed when it raises.
Hist_partial(x, bins, range) ==
    /\ hist_args' = Bound([x |-> x, bins |-> bins, range |-> range])
    /\ IF HistError(x, bins, range) # "None"
       THEN /\ raised' = HistError(x, bins, range)
            /\ hist_out' = Bound([n |-> <<>>, edges |-> GivenEdges(x, range), den |-> 1])
       ELSE /\ raised' = "None"
            /\ hist_out' = Bound(histogram(x, bins, range))

\* hist(x, bins = bins, range = range): the call raises, or returns.
Hist(x, bins, range) ==
    /\ hist_args' = Bound([x |-> x, bins |-> bins, range |-> range])
    /\ IF HistError(x, bins, range) # "None"
       THEN /\ raised' = HistError(x, bins, range)
            /\ hist_out' = hist_out
       ELSE /\ raised' = "None"
            /\ hist_out' = Bound(histogram(x, bins, range))

\* xmin = 0.5 of plt.xlim, in half fixed-point units.
XlimMin2 == Scale

\* PlotHist without the plt.xlim line: the view stays as it was.
PlotHist_noxlim ==
    /\ Len(history) < MaxCalls
    /\ IF all_distances = Unbound
       THEN /\ raised' = "NameError"
            /\ UNCHANGED <<hist_args, hist_out>>
       ELSE Hist(flatten(all_distances[1]), Bins, <<>>)
    /\ xlim' = xlim
    /\ history' = Append(history, "hist")
    /\ UNCHANGED <<symbols, positions, all_distances, pair_out>>

\* Cell 9: plt.hist(all_distances.flatten(), bins = 200), then
\* plt.xlim(xmin = 0.5).  The cell stops at the first exception: NameError
\* when cell 8 has not bound all_distances, and then plt.xlim is not reached.
\* (plt.ylim, plt.title and the labels change nothing modelled here.)
PlotHist ==
    /\ Len(history) < MaxCalls
    /\ IF all_distances = Unbound
       THEN /\ raised' = "NameError"
            /\ UNCHANGED <<hist_args, hist_out, xlim>>
       ELSE /\ Hist(flatten(all_distances[1]), Bins, <<>>)
            /\ xlim' = Bound(XlimMin2)
    /\ history' = Append(history, "hist")
    /\ UNCHANGED <<symbols, positions, all_distances, pair_out>>

Next ==
    \/ GetAllDistances
    \/ \E a, b \in 0..(MaxAtoms - 1) : GetDistances(a, b)
    \/ PlotHist

Spec == Init /\ [][Next]_vars

(***************************************************************************)
(* hist on its own: the arguments are drawn, then the call is made once.   *)
(***************************************************************************)
HistValues == {5, 10, 15, 20, 25, 30, 35}
HistBounds == {10, 20, 30}
HistRanges == {<<>>} \cup (HistBounds \X HistBounds)

InitHist ==
    /\ symbols = <<>>
    /\ positions = <<>>
    /\ all_distances = Unbound
    /\ pair_out = Unbound
    /\ \E x \in SeqsUpTo(HistValues, MaxVals), bins \in -1..MaxBins, range \in HistRanges :
          hist_args = Bound([x |-> x, bins |-> bins, range |-> range])
    /\ hist_out = Unbound
    /\ xlim = Unbound
    /\ raised = "None"
    /\ history = <<>>

BuildHistogram ==
    /\ history = <<>>
    /\ Hist(hist_args[1].x, hist_args[1].bins, hist_args[1].range)
    /\ history' = Append(history, "hist")
    /\ UNCHANGED <<symbols, positions, all_distances, pair_out, xlim>>

NextHist == BuildHistogram

SpecHist == InitHist /\ [][NextHist]_vars

(***************************************************************************)
(* The properties.                                                         *)
(***************************************************************************)
N == Len(positions)
Matrix == all_distances[1]
LastCall == history[Len(history)]

\* The whole-Angstrom sum of squares between atoms i and j, from the
\* coordinates themselves.
Sq(i, j) ==
    (positions[i][1] - positions[j][1]) * (positions[i][1] - positions[j][1])
    + (positions[i][2] - positions[j][2]) * (positions[i][2] - positions[j][2])
    + (positions[i][3] - positions[j][3]) * (positions[i][3] - positions[j][3])

\* C1: for an AtomSet of N >= 1 atoms the matrix bound by
\* all_distances = caffeine.get_all_distances() has N rows of N entries, a
\* zero diagonal, and D[i][j] = D[j][i] for all i, j.
ThmC1 ==
    (all_distances # Unbound /\ N >= 1) =>
        /\ Len(Matrix) = N
        /\ \A i \in 1..N : Len(Matrix[i]) = N
        /\ \A i \in 1..N : Matrix[i][i] = 0
        /\ \A i, j \in 1..N : Matrix[i][j] = Matrix[j][i]

\* C1's case: a matrix of three atoms with a nonzero entry has been computed.
WitC1 ==
    /\ all_distances # Unbound
    /\ N = 3
    /\ Matrix[1][3] > 0
    /\ Matrix[3][1] > 0

\* C2: every entry D[i][j] is the non-negative Euclidean distance of atoms i
\* and j: the square root of the sum over the three axes of the squared
\* coordinate differences (to the fixed-point unit, and exactly when that root
\* is a whole number of Angstroms); for positions (0,0,0) and (3,4,0) the
\* off-diagonal entries are exactly 5.
ThmC2 ==
    all_distances # Unbound =>
        /\ \A i, j \in 1..N :
              /\ Matrix[i][j] >= 0
              /\ Matrix[i][j] * Matrix[i][j] <= Sq(i, j) * Scale * Scale
              /\ (Matrix[i][j] + 1) * (Matrix[i][j] + 1) > Sq(i, j) * Scale * Scale
              /\ \A r \in 0..8 : Sq(i, j) = r * r => Matrix[i][j] = r * Scale
        /\ positions = << <<0, 0, 0>>, <<3, 4, 0>> >> =>
              Matrix[1][2] = 5 * Scale /\ Matrix[2][1] = 5 * Scale

\* C2's case: the matrix of the two atoms at (0,0,0) and (3,4,0).
WitC2 ==
    /\ positions = << <<0, 0, 0>>, <<3, 4, 0>> >>
    /\ all_distances # Unbound
    /\ Matrix[1][2] = 5 * Scale

\* The arguments and the result of the hist call.
Args == hist_args[1]
Called == hist_args # Unbound /\ history # <<>> /\ LastCall = "hist"
HasRange == Args.range # <<>>
MinValue == Args.range[1]
MaxValue == Args.range[2]
ValidHistInput ==
    /\ Called
    /\ Args.x # <<>>
    /\ Args.bins > 0
    /\ HasRange
    /\ MinValue < MaxValue
Counts == hist_out[1].n
Edges == hist_out[1].edges
Den == hist_out[1].den

RECURSIVE SeqSum(_)
SeqSum(q) == IF q = <<>> THEN 0 ELSE Head(q) + SeqSum(Tail(q))

InRange(v) == MinValue <= v /\ v <= MaxValue

\* C3: for valid input (values not empty, bin_count > 0, min_value < max_value)
\* the call raises nothing, and the bin counts sum to the number of values
\* lying within [min_value, max_value]: the values outside are in no bin.
ThmC3 ==
    ValidHistInput =>
        /\ raised = "None"
        /\ hist_out # Unbound
        /\ SeqSum(Counts) = Cardinality({k \in 1..Len(Args.x) : InRange(Args.x[k])})

\* C3's case: a valid call with one value below, one above and one inside
\* the range, and a histogram returned.
WitC3 ==
    /\ ValidHistInput
    /\ hist_out # Unbound
    /\ \E k \in 1..Len(Args.x) : Args.x[k] < MinValue
    /\ \E k \in 1..Len(Args.x) : Args.x[k] > MaxValue
    /\ \E k \in 1..Len(Args.x) : InRange(Args.x[k])

\* Value v lies in bin b, by the edges returned: [lower, upper) for every bin
\* but the last, [lower, upper] for the last.
InBin(v, b) ==
    /\ Edges[b] <= v * Den
    /\ IF b = Args.bins THEN v * Den <= Edges[b + 1] ELSE v * Den < Edges[b + 1]

\* C4: for valid input the count of every bin is the number of values in
\* [lower, upper), and in [lower, upper] for the last bin, so every in-range
\* value is counted in exactly one bin; values 1.0, 1.5, 2.0, 2.5 with two
\* bins over [1.0, 3.0] give the counts 2 and 2.
ThmC4 ==
    ValidHistInput =>
        /\ \A b \in 1..Args.bins :
              Counts[b] = Cardinality({k \in 1..Len(Args.x) : InBin(Args.x[k], b)})
        /\ \A k \in 1..Len(Args.x) :
              InRange(Args.x[k]) =>
                  Cardinality({b \in 1..Args.bins : InBin(Args.x[k], b)}) = 1
        /\ (Args.x = <<Scale, (3 * Scale) \div 2, 2 * Scale, (5 * Scale) \div 2>>
            /\ Args.bins = 2 /\ Args.range = <<Scale, 3 * Scale>>) =>
              Counts = <<2, 2>>

\* C4's case: a value on an interior edge and a value equal to max_value
\* have been counted, the first in the upper bin, the second in the last bin.
WitC4 ==
    /\ ValidHistInput
    /\ hist_out # Unbound
    /\ Args.bins = 2
    /\ Args.range = <<Scale, 3 * Scale>>
    /\ Args.x = <<2 * Scale, 3 * Scale>>
    /\ Counts = <<0, 2>>

\* C5: for valid input the histogram has bin_count bins whose bin_count + 1
\* edges run from min_value to max_value, each bin's upper edge being the next
\* bin's lower edge, and every bin has the width
\* (max_value - min_value) / bin_count.
ThmC5 ==
    ValidHistInput =>
        /\ Len(Counts) = Args.bins
        /\ Len(Edges) = Args.bins + 1
        /\ Edges[1] = MinValue * Den
        /\ Edges[Args.bins + 1] = MaxValue * Den
        /\ \A b \in 1..Args.bins :
              /\ Edges[b] < Edges[b + 1]
              /\ (Edges[b + 1] - Edges[b]) * Args.bins = (MaxValue - MinValue) * Den

\* C5's case: three bins over [1.0, 3.0], whose width 2/3 is no whole number
\* of units.
WitC5 ==
    /\ ValidHistInput
    /\ hist_out # Unbound
    /\ Args.bins = 3
    /\ Args.range = <<Scale, 3 * Scale>>

CexC7 ==
    (history # <<>> /\ LastCall = "get_all_distances" /\ N = 0) =>
        (raised # "None" /\ all_distances = Unbound)

\* C8: a hist call ends in exactly one of two ways: it raises, and then no
\* histogram, whole or partial, has been returned; or it raises nothing, and
\* then the histogram returned is whole (a count for every bin, an edge for
\* every bin bound); before the call nothing is raised and nothing returned.
ThmC8 ==
    /\ (Called /\ raised # "None") => hist_out = Unbound
    /\ (Called /\ raised = "None") =>
          /\ hist_out # Unbound
          /\ Len(Counts) = Args.bins
          /\ Len(Edges) = Args.bins + 1
    /\ (hist_args # Unbound /\ ~Called) => (raised = "None" /\ hist_out = Unbound)

\* C8's case: a hist call on data, with a reversed range, has raised.
WitC8 ==
    /\ Called
    /\ raised = "ValueError"
    /\ Args.x # <<>>
    /\ Args.bins > 0
    /\ hist_out = Unbound

\* C9: a repeated call of get_all_distances, whatever was called in between,
\* binds a matrix identical, entry by entry, to the one bound before.
ThmC9 ==
    [][(all_distances # Unbound /\ history' = Append(history, "get_all_distances"))
         => all_distances' = all_distances]_vars

\* C9's case: get_all_distances, then get_distances, then get_all_distances
\* again, on two or more atoms not all in one place.
WitC9 ==
    /\ history = <<"get_all_distances", "get_distances", "get_all_distances">>
    /\ pair_out # Unbound
    /\ N >= 2
    /\ Matrix[1][2] > 0

\* C10: no call changes the AtomSet (the order, the symbols and the positions
\* of its atoms), a matrix bound earlier is not changed by a later
\* get_distances or hist call, and a histogram returned earlier is not changed
\* by a later get_all_distances or get_distances call.
ThmC10 ==
    [][/\ symbols' = symbols
       /\ positions' = positions
       /\ history' # Append(history, "get_all_distances") => all_distances' = all_distances
       /\ history' # Append(history, "hist") => hist_out' = hist_out]_vars

\* C10's case: all three calls have been made on two or more atoms, the
\* matrix and the histogram are bound, and get_distances came last.
WitC10 ==
    /\ history = <<"get_all_distances", "hist", "get_distances">>
    /\ all_distances # Unbound
    /\ hist_out # Unbound
    /\ pair_out # Unbound
    /\ N >= 2

\* Bin b holds the value 0, by the edges returned.
ZeroBin(b) ==
    /\ Edges[b] <= 0
    /\ IF b = Len(Counts) THEN 0 <= Edges[b + 1] ELSE 0 < Edges[b + 1]

\* The bar of bin b shows in the plot: it has a height, and its upper edge is
\* right of the left view limit (with the automatic view every bar shows).
Drawn(b) ==
    /\ Counts[b] > 0
    /\ xlim = Unbound \/ 2 * Edges[b + 1] > xlim[1] * Den

\* C11: once cell 9 has run, the left view limit is 0.5 and no bar of a bin
\* that holds the value 0 shows: the self-distances are left out of the
\* histogram as plotted.  hist itself still counts them, in the bin that
\* holds 0.  (The bin of 0 is wholly left of 0.5 because a bin is no wider
\* than 0.5: the largest distance over 200 bins, for structures up to 100
\* Angstrom across.)
ThmC11 ==
    hist_out # Unbound =>
        /\ xlim = Bound(Scale)
        /\ \A b \in 1..Len(Counts) : ZeroBin(b) => ~Drawn(b)
        /\ N >= 1 => \E b \in 1..Len(Counts) : ZeroBin(b) /\ Counts[b] >= N

\* C11's case: the histogram of three atoms in three places has been
\* plotted; the bin of 0 holds the three self-distances and does not show,
\* and some bar of the other distances does.
WitC11 ==
    /\ hist_out # Unbound
    /\ xlim # Unbound
    /\ N = 3
    /\ \E b \in 1..Len(Counts) : ZeroBin(b) /\ Counts[b] = 3 /\ ~Drawn(b)
    /\ \E b \in 1..Len(Counts) : ~ZeroBin(b) /\ Drawn(b)

\* The place of entry (i, j) of the matrix in the flattened array.
At(i, j) == (i - 1) * N + j

\* The sum of q[lo..hi], by halves.
RECURSIVE RangeSum(_, _, _)
RangeSum(q, lo, hi) ==
    IF lo > hi THEN 0
    ELSE IF lo = hi THEN q[lo]
    ELSE LET mid == (lo + hi) \div 2
         IN  RangeSum(q, lo, mid) + RangeSum(q, mid + 1, hi)

Total(q) == RangeSum(q, 1, Len(q))

Occurrences(x, v) == Cardinality({k \in 1..Len(x) : x[k] = v})

\* C12: the array cell 9 hands to hist is the flattened matrix: N * N values,
\* entry (i, j) at place (i - 1) * N + j, so each of the N diagonal zeros
\* once and the distance of each pair twice (at (i, j) and at (j, i)); every
\* distance above 0 therefore occurs an even number of times, the number of
\* off-diagonal values N * N - N is even, and the counts of the histogram,
\* whose range is the whole data range, sum to N * N.
ThmC12 ==
    (hist_args # Unbound /\ all_distances # Unbound) =>
        /\ Len(Args.x) = N * N
        /\ \A i, j \in 1..N : Args.x[At(i, j)] = Matrix[i][j]
        /\ \A i \in 1..N : Args.x[At(i, i)] = 0
        /\ \A i, j \in 1..N : Args.x[At(i, j)] = Args.x[At(j, i)]
        /\ \A k \in 1..Len(Args.x) :
              Args.x[k] > 0 => Occurrences(Args.x, Args.x[k]) % 2 = 0
        /\ (N * N - N) % 2 = 0
        /\ Args.bins = Bins
        /\ Args.range = <<>>
        /\ hist_out # Unbound
        /\ Total(Counts) = N * N

\* C12's case: the matrix of three atoms in three places has been flattened
\* to nine values, three of them zero, and binned.
WitC12 ==
    /\ hist_args # Unbound
    /\ hist_out # Unbound
    /\ N = 3
    /\ Len(Args.x) = 9
    /\ Occurrences(Args.x, 0) = 3
    /\ Total(Counts) = 9

\* C13: a call get_distances(a, b) with both indices below N, made while a
\* matrix of the same AtomSet is bound, raises nothing and returns the
\* one-element array of entry [a][b] of that matrix, which is also its entry
\* [b][a] (indices from 0, as in the notebook's query for atoms 8 and 0).
ThmC13 ==
    [][(all_distances # Unbound /\ history' = Append(history, "get_distances")) =>
          \A a, b \in 0..(N - 1) :
              GetDistances(a, b) =>
                  /\ raised' = "None"
                  /\ pair_out' = Bound(<<Matrix[a + 1][b + 1]>>)
                  /\ pair_out' = Bound(<<Matrix[b + 1][a + 1]>>)]_vars

\* C13's case: the matrix of three atoms in three places is bound, and the
\* query that followed returned the distance of the third and the first atom.
WitC13 ==
    /\ history = <<"get_all_distances", "get_distances">>
    /\ N = 3
    /\ all_distances # Unbound
    /\ pair_out # Unbound
    /\ raised = "None"
    /\ pair_out[1][1] > 0
    /\ pair_out[1][1] = Matrix[3][1]
    /\ Matrix[3][1] # Matrix[3][2]
    /\ Matrix[3][1] # Matrix[2][1]

====
